---- MODULE Spec2Model ----
(***************************************************************************)
(* Model of the html! macro's stack-based tree builder (src/macros.rs).    *)
(* Each rule of html_impl! is one action; the helper functions of          *)
(* src/macros.rs are operators that take the stack and return the new      *)
(* stack together with the panic they raised, if any.                      *)
(***************************************************************************)
EXTENDS Integers, Sequences, FiniteSets, TLC

VARIABLES stack, pc, err, result, nops, opens, closes, lastOp, rootClosed, sibling, justClosed,
          lastIn, prefixOk, firstTag

vars == <<stack, pc, err, result, nops, opens, closes, lastOp, rootClosed, sibling, justClosed,
          lastIn, prefixOk, firstTag>>

\* Number of macro rules (other than the terminal one) expanded in one html! call.
MaxOps == 5

\* Inputs the macro call sites are given.
Tags == {"a", "b"}
Values == {"x", "y"}
AttrNames == {"id", "type"}
ClassNames == {"x", "y"}
Listeners == {"onclick", "oninput"}

\* The panics of src/macros.rs, named as the error taxonomy names them.
NoError == [kind |-> "None", a |-> "", b |-> ""]
EmptyStackError(what) == [kind |-> "EmptyStackError", a |-> what, b |-> ""]
UnbalancedCloseError(endtag) == [kind |-> "UnbalancedCloseError", a |-> endtag, b |-> ""]
TagMismatchError(starttag, endtag) == [kind |-> "TagMismatchError", a |-> starttag, b |-> endtag]
MalformedTreeError == [kind |-> "MalformedTreeError", a |-> "", b |-> ""]

\* Option<&str> of child_to_parent's endtag.
NoTag == "None"

(***************************************************************************)
(* html::VNode and html::Child.  A node carries the ordinal of the open    *)
(* that created it (0 for a node built outside this macro call), which     *)
(* stands for the identity of the owned Rust value.                        *)
(***************************************************************************)
NoValue == <<>>

VNode_new(tag, id) ==
    [id |-> id, tag |-> tag, value |-> NoValue, attributes |-> <<>>,
     classes |-> <<>>, listeners |-> <<>>, children |-> <<>>]

Child_VNode(node) == [kind |-> "VNode", node |-> node]
Child_External(v) == [kind |-> "External", val |-> v]

node_tag(node) == node.tag

node_set_value(node, value) == [node EXCEPT !.value = <<value>>]

HasAttr(node, name) == \E i \in 1..Len(node.attributes) : node.attributes[i][1] = name

node_add_attribute(node, name, value) ==
    IF HasAttr(node, name)
    THEN [node EXCEPT !.attributes =
            [i \in 1..Len(node.attributes) |->
                IF node.attributes[i][1] = name THEN <<name, value>> ELSE node.attributes[i]]]
    ELSE [node EXCEPT !.attributes = Append(node.attributes, <<name, value>>)]

node_add_classes(node, class) == [node EXCEPT !.classes = Append(node.classes, class)]

node_add_listener(node, listener) == [node EXCEPT !.listeners = Append(node.listeners, listener)]

node_add_child(node, child) == [node EXCEPT !.children = Append(node.children, child)]

\* A node built outside this macro call and embedded with { expression }.
ExtNode == VNode_new("li", 0)

ChildInputs == {Child_External("t"), Child_VNode(ExtNode)}

\* The iterators given to { for expression }.
ChildSeqs == {<<>>, <<Child_External("t")>>,
              <<Child_External("t"), Child_VNode(ExtNode)>>,
              <<Child_VNode(ExtNode), Child_External("u")>>}

(***************************************************************************)
(* Vec helpers.                                                            *)
(***************************************************************************)
Top(s) == s[Len(s)]
Pop(s) == SubSeq(s, 1, Len(s) - 1)
ReplaceTop(s, node) == [s EXCEPT ![Len(s)] = node]

Ok(s) == [stack |-> s, err |-> NoError]
Panic(s, e) == [stack |-> s, err |-> e]

(***************************************************************************)
(* The functions of src/macros.rs.                                         *)
(***************************************************************************)
\* unpack that reports the malformed tree and still hands out the innermost node.
unpack_partial(s) ==
    IF Len(s) # 1
    THEN [stack |-> s, err |-> MalformedTreeError,
          node |-> IF Len(s) > 1 THEN <<Top(s)>> ELSE <<>>]
    ELSE [stack |-> Pop(s), err |-> NoError, node |-> <<Top(s)>>]

\* unpack that hands out the top of any non-empty stack.
unpack_lax(s) ==
    IF Len(s) < 1
    THEN [stack |-> s, err |-> MalformedTreeError, node |-> <<>>]
    ELSE [stack |-> Pop(s), err |-> NoError, node |-> <<Top(s)>>]

unpack(s) ==
    IF Len(s) # 1
    THEN [stack |-> s, err |-> MalformedTreeError, node |-> <<>>]
    ELSE [stack |-> Pop(s), err |-> NoError, node |-> <<Top(s)>>]

set_value(s, value) ==
    IF Len(s) > 0
    THEN Ok(ReplaceTop(s, node_set_value(Top(s), value)))
    ELSE Panic(s, EmptyStackError("value"))

\* add_attribute that takes first_mut() where the code takes last_mut().
add_attribute_first(s, name, value) ==
    IF Len(s) > 0
    THEN Ok([s EXCEPT ![1] = node_add_attribute(s[1], name, value)])
    ELSE Panic(s, EmptyStackError("attribute"))

add_attribute(s, name, value) ==
    IF Len(s) > 0
    THEN Ok(ReplaceTop(s, node_add_attribute(Top(s), name, value)))
    ELSE Panic(s, EmptyStackError("attribute"))

attach_class(s, class) ==
    IF Len(s) > 0
    THEN Ok(ReplaceTop(s, node_add_classes(Top(s), class)))
    ELSE Panic(s, EmptyStackError("class"))

\* attach_listener that ignores a missing tag instead of panicking.
attach_listener_silent(s, listener) ==
    IF Len(s) > 0
    THEN Ok(ReplaceTop(s, node_add_listener(Top(s), listener)))
    ELSE Ok(s)

attach_listener(s, listener) ==
    IF Len(s) > 0
    THEN Ok(ReplaceTop(s, node_add_listener(Top(s), listener)))
    ELSE Panic(s, EmptyStackError("listener"))

\* add_child that takes first_mut() where the code takes last_mut().
add_child_first(s, child) ==
    IF Len(s) > 0
    THEN Ok([s EXCEPT ![1] = node_add_child(s[1], child)])
    ELSE Panic(s, EmptyStackError("child"))

add_child(s, child) ==
    IF Len(s) > 0
    THEN Ok(ReplaceTop(s, node_add_child(Top(s), child)))
    ELSE Panic(s, EmptyStackError("child"))

\* child_to_parent that pops the node and never attaches it to the new top.
child_to_parent_drop(s, endtag) ==
    IF Len(s) > 0
    THEN LET node == Top(s)
             rest == Pop(s)
             starttag == node_tag(node)
         IN  IF endtag # NoTag /\ starttag # endtag
             THEN Panic(rest, TagMismatchError(starttag, endtag))
             ELSE IF Len(rest) > 0
                  THEN Ok(rest)
                  ELSE Ok(Append(rest, node))
    ELSE Panic(s, UnbalancedCloseError(endtag))

\* child_to_parent that does not keep the last node in the stack.
child_to_parent_nokeep(s, endtag) ==
    IF Len(s) > 0
    THEN LET node == Top(s)
             rest == Pop(s)
             starttag == node_tag(node)
         IN  IF endtag # NoTag /\ starttag # endtag
             THEN Panic(rest, TagMismatchError(starttag, endtag))
             ELSE IF Len(rest) > 0
                  THEN Ok(ReplaceTop(rest, node_add_child(Top(rest), Child_VNode(node))))
                  ELSE Ok(rest)
    ELSE Panic(s, UnbalancedCloseError(endtag))

\* child_to_parent that compares the tags only when a parent is left.
child_to_parent_rootunchecked(s, endtag) ==
    IF Len(s) > 0
    THEN LET node == Top(s)
             rest == Pop(s)
             starttag == node_tag(node)
         IN  IF Len(rest) > 0
             THEN IF endtag # NoTag /\ starttag # endtag
                  THEN Panic(rest, TagMismatchError(starttag, endtag))
                  ELSE Ok(ReplaceTop(rest, node_add_child(Top(rest), Child_VNode(node))))
             ELSE Ok(Append(rest, node))
    ELSE Panic(s, UnbalancedCloseError(endtag))

\* child_to_parent that puts the closed node in front of the children of the new top.
child_to_parent_prepend(s, endtag) ==
    IF Len(s) > 0
    THEN LET node == Top(s)
             rest == Pop(s)
             starttag == node_tag(node)
         IN  IF endtag # NoTag /\ starttag # endtag
             THEN Panic(rest, TagMismatchError(starttag, endtag))
             ELSE IF Len(rest) > 0
                  THEN Ok(ReplaceTop(rest, [Top(rest) EXCEPT
                              !.children = <<Child_VNode(node)>> \o @]))
                  ELSE Ok(Append(rest, node))
    ELSE Panic(s, UnbalancedCloseError(endtag))

\* child_to_parent that attaches the new top to the popped node and keeps the latter.
child_to_parent_swapped(s, endtag) ==
    IF Len(s) > 0
    THEN LET node == Top(s)
             rest == Pop(s)
             starttag == node_tag(node)
         IN  IF endtag # NoTag /\ starttag # endtag
             THEN Panic(rest, TagMismatchError(starttag, endtag))
             ELSE IF Len(rest) > 0
                  THEN Ok(ReplaceTop(rest, node_add_child(node, Child_VNode(Top(rest)))))
                  ELSE Ok(Append(rest, node))
    ELSE Panic(s, UnbalancedCloseError(endtag))

\* child_to_parent that attaches the popped node and also leaves it on the stack.
child_to_parent_dup(s, endtag) ==
    IF Len(s) > 0
    THEN LET node == Top(s)
             rest == Pop(s)
             starttag == node_tag(node)
         IN  IF endtag # NoTag /\ starttag # endtag
             THEN Panic(rest, TagMismatchError(starttag, endtag))
             ELSE IF Len(rest) > 0
                  THEN Ok(Append(ReplaceTop(rest, node_add_child(Top(rest), Child_VNode(node))),
                                 node))
                  ELSE Ok(Append(rest, node))
    ELSE Panic(s, UnbalancedCloseError(endtag))

\* child_to_parent that reports a closing tag without a node as a wrong closing tag.
child_to_parent_wrongpanic(s, endtag) ==
    IF Len(s) > 0
    THEN LET node == Top(s)
             rest == Pop(s)
             starttag == node_tag(node)
         IN  IF endtag # NoTag /\ starttag # endtag
             THEN Panic(rest, TagMismatchError(starttag, endtag))
             ELSE IF Len(rest) > 0
                  THEN Ok(ReplaceTop(rest, node_add_child(Top(rest), Child_VNode(node))))
                  ELSE Ok(Append(rest, node))
    ELSE IF endtag # NoTag
         THEN Panic(s, TagMismatchError("", endtag))
         ELSE Panic(s, UnbalancedCloseError(endtag))

child_to_parent(s, endtag) ==
    IF Len(s) > 0
    THEN LET node == Top(s)
             rest == Pop(s)
             starttag == node_tag(node)
         IN  IF endtag # NoTag /\ starttag # endtag
             THEN Panic(rest, TagMismatchError(starttag, endtag))
             ELSE IF Len(rest) > 0
                  THEN Ok(ReplaceTop(rest, node_add_child(Top(rest), Child_VNode(node))))
                  ELSE Ok(Append(rest, node))
    ELSE Panic(s, UnbalancedCloseError(endtag))

\* The loop of { for expression } run from the last item to the first.
RECURSIVE add_children_rev(_, _)
add_children_rev(s, nodes) ==
    IF Len(nodes) = 0
    THEN Ok(s)
    ELSE LET r == add_child(s, nodes[Len(nodes)])
         IN  IF r.err # NoError THEN r
             ELSE add_children_rev(r.stack, SubSeq(nodes, 1, Len(nodes) - 1))

\* for node in nodes.map(Child::from) { add_child(&mut stack, node); }
RECURSIVE add_children(_, _)
add_children(s, nodes) ==
    IF Len(nodes) = 0
    THEN Ok(s)
    ELSE LET r == add_child(s, Head(nodes))
         IN  IF r.err # NoError THEN r ELSE add_children(r.stack, Tail(nodes))

(***************************************************************************)
(* The macro call: html! creates the stack, html_impl! expands one rule    *)
(* per step.  A panic aborts the call.                                     *)
(***************************************************************************)
Init ==
    /\ stack = <<>>
    /\ pc = "building"
    /\ err = NoError
    /\ result = <<>>
    /\ nops = 0
    /\ opens = 0
    /\ closes = 0
    /\ lastOp = [op |-> "new", arg |-> ""]
    /\ rootClosed = FALSE
    /\ sibling = FALSE
    /\ justClosed = 0
    /\ lastIn = <<>>
    /\ prefixOk = TRUE
    /\ firstTag = NoTag

CanStep == pc = "building" /\ nops < MaxOps

\* Common tail of every rule that calls one of the functions above.
Apply(r, op, arg) ==
    /\ stack' = r.stack
    /\ err' = r.err
    /\ pc' = IF r.err = NoError THEN "building" ELSE "failed"
    /\ nops' = nops + 1
    /\ lastOp' = [op |-> op, arg |-> arg]
    /\ result' = result

Open(tag) ==
    /\ CanStep
    /\ Apply(Ok(Append(stack, VNode_new(tag, opens + 1))), "open", tag)
    /\ opens' = opens + 1
    /\ sibling' = (sibling \/ rootClosed)
    /\ justClosed' = 0
    /\ lastIn' = <<>>
    /\ firstTag' = IF opens = 0 THEN tag ELSE firstTag
    /\ UNCHANGED <<closes, rootClosed, prefixOk>>

SetValue(value) ==
    /\ CanStep
    /\ Apply(set_value(stack, value), "setValue", value)
    /\ lastIn' = <<>>
    /\ UNCHANGED <<opens, closes, rootClosed, sibling, justClosed, prefixOk, firstTag>>

AddAttribute(name, value) ==
    /\ CanStep
    /\ Apply(add_attribute(stack, name, value), "addAttribute", name)
    /\ lastIn' = <<value>>
    /\ UNCHANGED <<opens, closes, rootClosed, sibling, justClosed, prefixOk, firstTag>>

AddClass(class) ==
    /\ CanStep
    /\ Apply(attach_class(stack, class), "addClass", class)
    /\ lastIn' = <<>>
    /\ UNCHANGED <<opens, closes, rootClosed, sibling, justClosed, prefixOk, firstTag>>

AddListener(action) ==
    /\ CanStep
    /\ Apply(attach_listener(stack, action), "addListener", action)
    /\ lastIn' = <<>>
    /\ UNCHANGED <<opens, closes, rootClosed, sibling, justClosed, prefixOk, firstTag>>

AddChild(child) ==
    /\ CanStep
    /\ Apply(add_child(stack, child), "addChild", child.kind)
    /\ lastIn' = <<child>>
    /\ UNCHANGED <<opens, closes, rootClosed, sibling, justClosed, prefixOk, firstTag>>

AddChildren(nodes) ==
    /\ CanStep
    /\ Apply(add_children(stack, nodes), "addChildren", "")
    /\ lastIn' = nodes
    /\ UNCHANGED <<opens, closes, rootClosed, sibling, justClosed, prefixOk, firstTag>>

Close(endtag, op) ==
    /\ CanStep
    /\ LET r == child_to_parent(stack, endtag)
       IN  /\ Apply(r, op, endtag)
           /\ rootClosed' = (rootClosed \/ (r.err = NoError /\ Len(stack) = 1))
           /\ justClosed' = IF r.err = NoError /\ op = "closeSelf" THEN Top(stack).id ELSE 0
           /\ closes' = IF r.err = NoError THEN closes + 1 ELSE closes
           /\ prefixOk' = (prefixOk /\ (r.err = NoError => closes + 1 <= opens))
    /\ lastIn' = <<>>
    /\ UNCHANGED <<opens, sibling, firstTag>>

CloseSelf == Close(NoTag, "closeSelf")

CloseTagged(endtag) == Close(endtag, "closeTagged")

Finish ==
    /\ pc = "building"
    /\ LET r == unpack(stack)
       IN  /\ stack' = r.stack
           /\ err' = r.err
           /\ result' = r.node
           /\ pc' = IF r.err = NoError THEN "done" ELSE "failed"
    /\ lastOp' = [op |-> "finish", arg |-> ""]
    /\ lastIn' = <<>>
    /\ UNCHANGED <<nops, opens, closes, rootClosed, sibling, justClosed, prefixOk, firstTag>>

Next ==
    \/ \E tag \in Tags : Open(tag)
    \/ \E value \in Values : SetValue(value)
    \/ \E name \in AttrNames, value \in Values : AddAttribute(name, value)
    \/ \E class \in ClassNames : AddClass(class)
    \/ \E action \in Listeners : AddListener(action)
    \/ \E child \in ChildInputs : AddChild(child)
    \/ \E nodes \in ChildSeqs : AddChildren(nodes)
    \/ CloseSelf
    \/ \E endtag \in Tags : CloseTagged(endtag)
    \/ Finish

Spec == Init /\ [][Next]_vars

(***************************************************************************)
(* Properties.                                                             *)
(***************************************************************************)
MutationOps == {"setValue", "addAttribute", "addClass", "addListener", "addChild"}
CloseOps == {"closeSelf", "closeTagged"}

\* The step just taken expanded the rule op.
IsStep(op) == pc = "building" /\ nops' = nops + 1 /\ lastOp'.op = op
IsFinish == pc = "building" /\ pc' # "building" /\ lastOp'.op = "finish"

\* Every node of a tree, and of the stack with all that is attached to it.
RECURSIVE NodesOf(_)
NodesOf(node) ==
    {node} \cup UNION {NodesOf(node.children[i].node) :
                          i \in {j \in 1..Len(node.children) : node.children[j].kind = "VNode"}}

AllNodes(s) == UNION {NodesOf(s[i]) : i \in 1..Len(s)}

\* The children lists of the nodes that carry the ordinal id.
KidsOf(id, s) == {n.children : n \in {m \in AllNodes(s) : m.id = id}}

\* Number of nodes of a tree that an open of this call created.
RECURSIVE BuilderNodes(_)
RECURSIVE BuilderNodesIn(_)
BuilderNodes(node) == (IF node.id # 0 THEN 1 ELSE 0) + BuilderNodesIn(node.children)
BuilderNodesIn(cs) ==
    IF Len(cs) = 0 THEN 0
    ELSE (IF Head(cs).kind = "VNode" THEN BuilderNodes(Head(cs).node) ELSE 0)
         + BuilderNodesIn(Tail(cs))

\* s is a prefix of t.
IsPrefix(s, t) == Len(s) <= Len(t) /\ SubSeq(t, 1, Len(s)) = s

\* C1: finish returns a node exactly when the stack holds one element, and
\* then returns that element; with an empty stack or two or more elements it
\* fails with MalformedTreeError and returns nothing.
C1_FinishIffSingle ==
    [][IsFinish =>
        IF Len(stack) = 1
        THEN pc' = "done" /\ err' = NoError /\ result' = <<stack[1]>>
        ELSE pc' = "failed" /\ err' = MalformedTreeError /\ result' = <<>>]_vars

C1_Witness ==
    /\ lastOp.op = "finish" /\ pc = "done"
    /\ Len(result) = 1 /\ result[1].id = 1 /\ opens = 2

\* C2: once an element was opened after the root had been closed, the
\* following finish fails with MalformedTreeError.
C2_SiblingRootFails ==
    (sibling /\ lastOp.op = "finish") => (pc = "failed" /\ err = MalformedTreeError)

\* C3: after a successful closeSelf, an addChild issued before the next open
\* or close leaves the children of the closed node as they were.
C3_ClosedNodeFinal ==
    [][(justClosed # 0 /\ IsStep("addChild") /\ pc' = "building") =>
        KidsOf(justClosed, stack') = KidsOf(justClosed, stack)]_vars

\* C4: after a well-formed sequence (nothing failed, as many closes as opens,
\* finish on a stack of size 1) the returned tree holds exactly as many nodes
\* created by open as there were open calls.
C4_NodeCount ==
    (pc = "done" /\ closes = opens) => BuilderNodes(result[1]) = opens

C4_Witness ==
    /\ pc = "done" /\ closes = opens /\ opens = 2
    /\ Cardinality(NodesOf(result[1])) = 3

\* C5: a successful setValue, addAttribute, addClass, addListener or addChild
\* changes only the stack top: the stack keeps its size and order, the nodes
\* below the top and the children already attached to the top stay as they were.
C5_MutationFrame ==
    [][((\E op \in MutationOps : IsStep(op)) /\ pc' = "building") =>
        /\ Len(stack') = Len(stack)
        /\ \A i \in 1..(Len(stack) - 1) : stack'[i] = stack[i]
        /\ Top(stack').id = Top(stack).id
        /\ Top(stack').tag = Top(stack).tag
        /\ IsPrefix(Top(stack).children, Top(stack').children)]_vars

C5_Witness ==
    /\ lastOp.op = "addChild" /\ pc = "building"
    /\ Len(stack) = 2 /\ Len(stack[1].children) = 1 /\ Len(stack[2].children) = 1

\* C6: a successful close on a stack of size n >= 2 pops the top and appends
\* it as the last child of the new top, leaving n-1 elements; on a stack of
\* size 1 the node stays the sole stack element.
C6_CloseAttaches ==
    [][((\E op \in CloseOps : IsStep(op)) /\ pc' = "building") =>
        IF Len(stack) >= 2
        THEN /\ Len(stack') = Len(stack) - 1
             /\ \A i \in 1..(Len(stack) - 2) : stack'[i] = stack[i]
             /\ Top(stack').children =
                    stack[Len(stack) - 1].children \o <<Child_VNode(Top(stack))>>
             /\ [Top(stack') EXCEPT !.children = <<>>] =
                    [stack[Len(stack) - 1] EXCEPT !.children = <<>>]
        ELSE /\ Len(stack') = 1
             /\ stack'[1] = stack[1]]_vars

C6_Witness ==
    /\ lastOp.op \in CloseOps /\ pc = "building"
    /\ Len(stack) = 1 /\ Len(stack[1].children) = 2
    /\ stack[1].children[2].kind = "VNode" /\ stack[1].children[2].node.id = 2

\* C7: closeTagged with a tag other than the tag of the top node fails with
\* TagMismatchError(open tag, close tag) and attaches nothing, also when the
\* top node is the only element of the stack.
C7_TagMismatch ==
    [][(IsStep("closeTagged") /\ Len(stack) > 0 /\ Top(stack).tag # lastOp'.arg) =>
        /\ pc' = "failed"
        /\ err' = TagMismatchError(Top(stack).tag, lastOp'.arg)
        /\ result' = <<>>
        /\ Len(stack') = Len(stack) - 1
        /\ \A i \in 1..Len(stack') : stack'[i] = stack[i]]_vars

C7_Witness ==
    /\ lastOp = [op |-> "closeTagged", arg |-> "b"]
    /\ err = TagMismatchError("a", "b")
    /\ opens = 1 /\ pc = "failed"

\* C8: closeSelf and closeTagged on an empty stack fail with
\* UnbalancedCloseError, never TagMismatchError, and leave the stack empty.
C8_UnbalancedClose ==
    [][((\E op \in CloseOps : IsStep(op)) /\ Len(stack) = 0) =>
        /\ pc' = "failed"
        /\ err'.kind = "UnbalancedCloseError"
        /\ stack' = <<>>]_vars

C8_Witness ==
    /\ lastOp.op = "closeTagged" /\ pc = "failed"
    /\ err.kind = "UnbalancedCloseError" /\ stack = <<>>

\* C9: setValue, addAttribute, addClass, addListener and addChild fail with
\* EmptyStackError on an empty stack and succeed on a non-empty one.
C9_MutationNeedsTag ==
    [][(\E op \in MutationOps : IsStep(op)) =>
        IF Len(stack) = 0
        THEN pc' = "failed" /\ err'.kind = "EmptyStackError" /\ stack' = <<>>
        ELSE pc' = "building" /\ err' = NoError]_vars

C9_Witness ==
    /\ lastOp.op = "addListener" /\ pc = "failed"
    /\ err.kind = "EmptyStackError" /\ stack = <<>>

\* C10: addChildren on an empty stack fails with EmptyStackError whatever the
\* sequence produces, a sequence of zero items included.
C10_AddChildrenEmptyStack ==
    [][(IsStep("addChildren") /\ Len(stack) = 0) =>
        (pc' = "failed" /\ err'.kind = "EmptyStackError")]_vars

\* The stack after addChild(nodes[1]); ...; addChild(nodes[n]) on stack s.
RECURSIVE RepeatedAddChild(_, _)
RepeatedAddChild(s, nodes) ==
    IF Len(nodes) = 0 THEN s
    ELSE RepeatedAddChild(add_child(s, Head(nodes)).stack, Tail(nodes))

\* C11: on a non-empty stack addChildren([c1..cn]) succeeds and leaves the
\* stack as addChild(c1); ...; addChild(cn) leave it: the top gains exactly
\* c1..cn, in that order, after the children it had, and nothing else changes.
C11_AddChildrenIsRepeatedAddChild ==
    [][(IsStep("addChildren") /\ Len(stack) > 0) =>
        /\ pc' = "building" /\ err' = NoError /\ result' = result
        /\ stack' = RepeatedAddChild(stack, lastIn')
        /\ Len(stack') = Len(stack)
        /\ \A i \in 1..(Len(stack) - 1) : stack'[i] = stack[i]
        /\ Top(stack').children = Top(stack).children \o lastIn'
        /\ [Top(stack') EXCEPT !.children = <<>>] = [Top(stack) EXCEPT !.children = <<>>]]_vars

C11_Witness ==
    /\ lastOp.op = "addChildren" /\ pc = "building" /\ Len(lastIn) = 2
    /\ Len(stack) = 2 /\ Len(Top(stack).children) = 3
    /\ Top(stack).children[1].kind = "VNode"
    /\ SubSeq(Top(stack).children, 2, 3) = lastIn

\* Everything the construction holds: the stack and, after finish, the root returned.
Forest == stack \o result

\* C12: children are kept in call order: whatever the step (addChild,
\* addChildren, a close, an open, finish), the children a node already had
\* stay where they were, unchanged, and the new ones come after them.
C12_ChildrenInCallOrder ==
    [][(pc = "building" /\ pc' # "failed") =>
        \A id \in 1..opens :
            \A kids \in KidsOf(id, Forest) :
                \E kids2 \in KidsOf(id, Forest') : IsPrefix(kids, kids2)]_vars

C12_Witness ==
    /\ lastOp.op = "addChildren" /\ pc = "building" /\ Len(lastIn) = 1
    /\ Len(stack) = 1 /\ Len(stack[1].children) = 3
    /\ stack[1].children[1].kind = "External"
    /\ stack[1].children[2].kind = "VNode" /\ stack[1].children[2].node.id = 2
    /\ stack[1].children[3].kind = "External"

\* C13: after a non-failing balanced sequence (at least one open, no prefix
\* with more closes than opens, as many closes as opens) the stack holds
\* exactly one element.
C13_BalancedLeavesOne ==
    (pc = "building" /\ opens >= 1 /\ prefixOk /\ closes = opens) => Len(stack) = 1

C13_Witness ==
    /\ pc = "building" /\ prefixOk /\ opens = 2 /\ closes = 2
    /\ Len(stack) = 1 /\ lastOp.op \in CloseOps

\* C14: every error is fatal: once an operation has failed the construction
\* is aborted, no further step is taken and no tree, partial or complete, is
\* returned.
C14_ErrorsAreFatal ==
    (err # NoError \/ pc = "failed") =>
        /\ pc = "failed"
        /\ err.kind \in {"EmptyStackError", "UnbalancedCloseError",
                         "TagMismatchError", "MalformedTreeError"}
        /\ result = <<>>
        /\ ~ENABLED Next

C14_Witness ==
    /\ pc = "failed" /\ err = MalformedTreeError
    /\ lastOp.op = "finish" /\ Len(stack) = 2 /\ nops < MaxOps

\* The names of the attributes of a node, in stored order.
AttrKeys(node) == [i \in 1..Len(node.attributes) |-> node.attributes[i][1]]

\* The values stored under name in the attributes of a node.
AttrVals(node, name) ==
    {node.attributes[i][2] : i \in {j \in 1..Len(node.attributes) : node.attributes[j][1] = name}}

NoRepeatedKey(node) ==
    \A i, j \in 1..Len(node.attributes) :
        node.attributes[i][1] = node.attributes[j][1] => i = j

\* C16: addAttribute has mapping semantics on the stack top: a new node has
\* no attribute, and each successful addAttribute(name, value) leaves the top
\* with one entry per distinct name, value under name, and every other entry
\* as it was.
C16_AttributeLastWriteWins ==
    [][/\ (IsStep("open") => Top(stack').attributes = <<>>)
       /\ (IsStep("addAttribute") /\ pc' = "building") =>
            LET old == Top(stack)
                new == Top(stack')
                name == lastOp'.arg
            IN  /\ NoRepeatedKey(new)
                /\ AttrVals(new, name) = {lastIn'[1]}
                /\ {AttrKeys(new)[i] : i \in 1..Len(new.attributes)} =
                       {AttrKeys(old)[i] : i \in 1..Len(old.attributes)} \cup {name}
                /\ \A other \in AttrNames \ {name} :
                       AttrVals(new, other) = AttrVals(old, other)
                /\ IsPrefix(AttrKeys(old), AttrKeys(new))]_vars

C16_Witness ==
    /\ lastOp = [op |-> "addAttribute", arg |-> "id"] /\ pc = "building"
    /\ lastIn = <<"y">> /\ Len(stack) = 2
    /\ Top(stack).attributes = <<<<"id", "y">>, <<"type", "x">>>>
    /\ nops = 5

\* C17: once the first open has been performed, no successful operation
\* short of finish empties the stack again.
C17_StackStaysNonEmpty ==
    (pc = "building" /\ opens >= 1) => Len(stack) >= 1

C17_Witness ==
    /\ pc = "building" /\ opens = 1 /\ closes = 2
    /\ lastOp.op = "closeSelf" /\ Len(stack) = 1

\* C18: the bottom of the stack is always the node the first open created,
\* so a successful finish returns a node with the tag of the first open.
C18_RootIsFirstOpen ==
    /\ (pc = "building" /\ opens >= 1) =>
           (Len(stack) >= 1 /\ stack[1].id = 1 /\ stack[1].tag = firstTag)
    /\ pc = "done" => (result[1].id = 1 /\ result[1].tag = firstTag)

C18_Witness ==
    /\ pc = "done" /\ firstTag = "a" /\ result[1].tag = "a"
    /\ opens = 2 /\ closes = 1
    /\ result[1].children = <<Child_VNode(VNode_new("b", 2))>>

\* C19: a close on a stack of size 1 (closeSelf, or closeTagged with the tag
\* of the root) raises no error and leaves the stack exactly as it was,
\* however often it is repeated.
C19_RootCloseIsNoOp ==
    [][(/\ \E op \in CloseOps : IsStep(op)
        /\ Len(stack) = 1
        /\ lastOp'.arg \in {NoTag, stack[1].tag}) =>
            /\ pc' = "building" /\ err' = NoError
            /\ stack' = stack /\ result' = result]_vars

C19_Witness ==
    /\ pc = "building" /\ opens = 1 /\ closes = 3
    /\ lastOp = [op |-> "closeTagged", arg |-> "a"] /\ Len(stack) = 1

\* Number of places of a children list, and of a node's subtree, that hold a
\* node carrying the ordinal id.
RECURSIVE CountId(_, _)
RECURSIVE CountIdIn(_, _)
CountId(node, id) == (IF node.id = id THEN 1 ELSE 0) + CountIdIn(node.children, id)
CountIdIn(cs, id) ==
    IF Len(cs) = 0 THEN 0
    ELSE (IF Head(cs).kind = "VNode" THEN CountId(Head(cs).node, id) ELSE 0)
         + CountIdIn(Tail(cs), id)

CountInForest(f, id) == CountIdIn([i \in 1..Len(f) |-> Child_VNode(f[i])], id)

\* C20: node conservation: in every state that has not failed, each node an
\* open created is present exactly once, as a stack element or inside the
\* subtree of one (after finish: inside the tree returned).
C20_NodeConservation ==
    (pc # "failed") => \A id \in 1..opens : CountInForest(Forest, id) = 1

C20_Witness ==
    /\ pc = "building" /\ opens = 3 /\ closes = 1 /\ Len(stack) = 2
    /\ CountIdIn(stack[2].children, 3) = 1

====
